---------------------------- MODULE Spec2Model ----------------------------
(***************************************************************************)
(* Model of the jjwxc.net metadata source plugin (src/src/__init__.py):    *)
(* Jinjiang.identify, Jinjiang.download_cover and the ranking key          *)
(* SearchResultIndexMetadataCompareKeyGen.                                 *)
(*                                                                         *)
(* The plugin object holds no state of its own.  A behaviour of the model  *)
(* is one call of an entry point on a freshly constructed plugin: the      *)
(* action draws the call's arguments and what the remote site answers to   *)
(* each fetch, runs the whole handler, and leaves in the variables the     *)
(* arguments, the answers, the queue the caller passed in, the fetches     *)
(* issued, the locals of the handler when it ended, and how it ended       *)
(* ("returned", or the name of the exception that left the handler).       *)
(*                                                                         *)
(* Text that the code takes apart (URLs, the chapter title attribute, the  *)
(* result-count banner, the date of a result card) is a sequence of        *)
(* tokens; urlparse, the regular expressions and strptime work on those    *)
(* sequences.  A Python None, or an absent node or attribute, is the empty *)
(* sequence None and a present value v is Some(v).                         *)
(***************************************************************************)
EXTENDS Integers, Sequences, FiniteSets, TLC

VARIABLES
    op,            \* "idle", "identify" or "download_cover": the entry point called
    args,          \* arguments of the call: [id, title, abort]
    detail_resp,   \* what the site answers to the detail page fetch of identify
    search_resp,   \* what the site answers to the search page fetch
    cover_resp,    \* what the site answers to the default cover fetch
    result_queue,  \* the queue passed by the caller, in put order
    fetched,       \* the fetches issued through br.open_novisit, in order
    cover_url,     \* local cover_url of the handler when it ended (None: unbound)
    jj_id,         \* local jj_id of the handler when it ended
    rq,            \* download_cover: what the nested identify put on its queue
    outcome        \* "none", "returned", or the exception raised out of the call

vars == <<op, args, detail_resp, search_resp, cover_resp, result_queue,
          fetched, cover_url, jj_id, rq, outcome>>

-----------------------------------------------------------------------------
(* Bounds of the model *)

\* most result cards of the primary layout on a search page
MaxCards == 2
\* most result cards of the secondary (bing) layout on a search page
MaxBing == 1

-----------------------------------------------------------------------------
(* Optional values and small helpers *)

None == <<>>
Some(x) == <<x>>

RECURSIVE Flatten(_)
\* concatenation of a sequence of token sequences (string joining)
Flatten(ss) == IF ss = <<>> THEN <<>> ELSE Head(ss) \o Flatten(Tail(ss))

\* sequences over S of length at most n
SeqUpTo(S, n) == UNION {[1..k -> S] : k \in 0..n}

\* index of the first token of s that belongs to T, Len(s)+1 when there is none
FirstIn(s, T) ==
    IF \E i \in 1..Len(s) : s[i] \in T
    THEN CHOOSE i \in 1..Len(s) : s[i] \in T /\ \A j \in 1..(i-1) : s[j] \notin T
    ELSE Len(s) + 1

\* substring test at token granularity
Contains(s, tok) == \E i \in 1..Len(s) : s[i] = tok

-----------------------------------------------------------------------------
(* Module constants, lines 18-24 *)

PROVIDER_ID == "jinjiang"

\* JINJIANG_BOOK_URL % id
JINJIANG_BOOK_URL(id) ==
    <<"https", ":", "//", "www", ".jjwxc.net", "/", "onebook.php", "?", "novelid=", id>>

\* JINJIANG_BOOKCOVER_URL % id
JINJIANG_BOOKCOVER_URL(id) ==
    <<"https", ":", "//", "i9-static", ".jjwxc.net", "/", "novelimage.php", "?", "novelid=", id>>

\* JINJIANG_SEARCH_URL % kw
JINJIANG_SEARCH_URL(kw) ==
    <<"https", ":", "//", "www", ".jjwxc.net", "/", "search.php", "?", "kw=">>
        \o kw \o <<"&ord=novelsize&t=1">>

\* tokens made of word characters only (\w+)
WordTok == {"http", "https", "www", "a", "authorspace", "_300_420", "tg", "cf"}
\* a dot followed by word characters
ExtTok == {".jpg"}
DigitTok == {"1", "2"}

\* quote(title, encoding="gb18030"): letters stay, a space becomes %20
quote(s) == [i \in 1..Len(s) |-> IF s[i] = " " THEN "%20" ELSE s[i]]

-----------------------------------------------------------------------------
(* urllib.parse.urlparse and the suffix-stripping regular expression *)

\* urlparse(url): scheme up to the first ":", netloc after "//" up to the
\* next "/", "?" or "#", then fragment, query and path
urlparse(url) ==
    LET hasScheme == Len(url) >= 2 /\ url[1] \in WordTok /\ url[2] = ":"
        scheme == IF hasScheme THEN <<url[1]>> ELSE <<>>
        r1 == IF hasScheme THEN SubSeq(url, 3, Len(url)) ELSE url
        hasNet == Len(r1) >= 1 /\ r1[1] = "//"
        r2 == IF hasNet THEN Tail(r1) ELSE r1
        netEnd == FirstIn(r2, {"/", "?", "#"})
        netloc == IF hasNet THEN SubSeq(r2, 1, netEnd - 1) ELSE <<>>
        r3 == IF hasNet THEN SubSeq(r2, netEnd, Len(r2)) ELSE r2
        fragAt == FirstIn(r3, {"#"})
        r4 == SubSeq(r3, 1, fragAt - 1)
        queryAt == FirstIn(r4, {"?"})
    IN  [scheme |-> scheme,
         netloc |-> netloc,
         path |-> SubSeq(r4, 1, queryAt - 1),
         query |-> SubSeq(r4, queryAt + 1, Len(r4)),
         fragment |-> SubSeq(r3, fragAt + 1, Len(r3))]

\* the lookahead (?=\.\w+$) at position i of s: a dot and word characters up
\* to the end of the string
ExtLookahead(s, i) ==
    /\ i <= Len(s)
    /\ s[i] \in ExtTok
    /\ \A j \in (i+1)..Len(s) : s[j] \in WordTok

RECURSIVE DropAt(_, _, _)
\* s from position i on, without the positions in D
DropAt(s, i, D) ==
    IF i > Len(s) THEN <<>>
    ELSE (IF i \in D THEN <<>> ELSE <<s[i]>>) \o DropAt(s, i + 1, D)

\* re.sub(r"_300_420(?=\.\w+$)", "", path)
StripSuffix(path) ==
    DropAt(path, 1, {i \in 1..Len(path) : path[i] = "_300_420" /\ ExtLookahead(path, i + 1)})

-----------------------------------------------------------------------------
(* SearchResultIndexMetadataCompareKeyGen, lines 29-52 *)

\* __init__: getattr(mi, 'search_result_index', 0)
KeyGen(mi) ==
    [extra |-> IF mi.search_result_index = None THEN 0 ELSE mi.search_result_index[1]]

compare_to_other_reversed(self, other) == other.extra - self.extra

compare_to_other(self, other) == self.extra - other.extra

key_eq(self, other) == compare_to_other(self, other) = 0
key_ne(self, other) == compare_to_other(self, other) # 0
key_lt(self, other) == compare_to_other(self, other) < 0
key_le(self, other) == compare_to_other(self, other) <= 0
key_gt(self, other) == compare_to_other(self, other) > 0
key_ge(self, other) == compare_to_other(self, other) >= 0

\* identify_results_keygen, lines 120-123
identify_results_keygen(mi) == KeyGen(mi)

RECURSIVE InsertSorted(_, _)
\* x put into the sorted list s after every element not greater than it
InsertSorted(x, s) ==
    IF s = <<>> THEN <<x>>
    ELSE IF key_lt(identify_results_keygen(x), identify_results_keygen(Head(s)))
         THEN <<x>> \o s
         ELSE <<Head(s)>> \o InsertSorted(x, Tail(s))

RECURSIVE SortResults(_)
\* results.sort(key=...): a stable sort that compares keys with < only
SortResults(s) ==
    IF s = <<>> THEN <<>>
    ELSE InsertSorted(s[Len(s)], SortResults(SubSeq(s, 1, Len(s) - 1)))

-----------------------------------------------------------------------------
(* Dates: the tokens of a text that holds a timestamp, and strptime *)

\* a token of a text node or attribute that may hold a date.  k is "marker"
\* (the first-publication marker of line 191), "ts" (text of the shape
\* dddd-dd-dd dd:dd:dd), "date" (dddd-dd-dd), "lparen", "rparen" or "text";
\* t is <<year, month, day, hour, minute, second>> as written in the text
NoTime == <<0, 0, 0, 0, 0, 0>>
Tok(k) == [k |-> k, t |-> NoTime]
TsTok(t) == [k |-> "ts", t |-> t]
DateTok(t) == [k |-> "date", t |-> t]

IsLeap(y) == (y % 4 = 0 /\ y % 100 # 0) \/ y % 400 = 0

DaysIn(y, m) ==
    IF m = 2 THEN (IF IsLeap(y) THEN 29 ELSE 28)
    ELSE IF m \in {4, 6, 9, 11} THEN 30 ELSE 31

ValidDate(t) == t[1] >= 1 /\ t[2] \in 1..12 /\ t[3] >= 1 /\ t[3] <= DaysIn(t[1], t[2])

\* datetime.strptime(s, "%Y-%m-%d %H:%M:%S") of a "ts" text: None stands for
\* the ValueError of a field out of range
strptime_datetime(t) ==
    IF ValidDate(t) /\ t[4] \in 0..23 /\ t[5] \in 0..59 /\ t[6] \in 0..61
    THEN Some(t) ELSE None

\* datetime.strptime(s, "%Y-%m-%d") of a token sequence: the text must be one
\* date and nothing else; None stands for the ValueError
strptime_date(s) ==
    IF Len(s) = 1 /\ s[1].k = "date" /\ ValidDate(s[1].t)
    THEN Some(s[1].t) ELSE None

\* re.search(marker + r"(\d{4}-\d{2}-\d{2}\s\d{2}:\d{2}:\d{2})", s): group 1 of
\* the leftmost match, None without a match
SearchPublishTime(s) ==
    LET hit(i) == s[i].k = "marker" /\ i + 1 <= Len(s) /\ s[i + 1].k = "ts"
    IN  IF \E i \in 1..Len(s) : hit(i)
        THEN LET i == CHOOSE i \in 1..Len(s) : hit(i) /\ \A j \in 1..(i-1) : ~hit(j)
             IN  Some(s[i + 1].t)
        ELSE None

\* text.strip().replace("(", "").replace(")", "")
StripParens(s) == SelectSeq(s, LAMBDA x : x.k \notin {"lparen", "rparen"})

-----------------------------------------------------------------------------
(* What the site can answer *)

\* values of the src attribute of img.noveldefaultimage
CoverSrcs ==
    {<<>>} \cup
    { Flatten(<<sch, <<"//">>, host, <<".jjwxc.net">>, path, q>>) :
        sch \in {<<>>, <<"http", ":">>},
        host \in {<<"i9-static">>, <<"authorspace">>},
        path \in {<<"/", "a", ".jpg">>,
                  <<"/", "a", "_300_420", ".jpg">>,
                  <<"/", "authorspace", "/", "a", "_300_420", ".jpg">>,
                  <<"/", "a", "_300_420">>},
        q \in {<<>>, <<"?", "v=1">>} }

\* the img.noveldefaultimage node: absent, without src, or with a src
ImgNodes ==
    {[node |-> FALSE, src |-> None], [node |-> TRUE, src |-> None]}
        \cup {[node |-> TRUE, src |-> Some(u)] : u \in CoverSrcs}

\* values of the title attribute of the last cell of the first chapter row
ChapterTitles ==
    { <<Tok("text")>>,
      <<Tok("marker"), TsTok(<<2020, 2, 29, 23, 59, 59>>)>>,
      <<Tok("text"), Tok("marker"), TsTok(<<2021, 12, 31, 0, 0, 0>>), Tok("text")>>,
      <<Tok("marker"), TsTok(<<2021, 2, 29, 10, 0, 0>>)>>,
      <<Tok("marker"), DateTok(<<2020, 1, 2, 0, 0, 0>>)>> }

\* the first row of the chapter table: absent; without a chapterclick cell;
\* with one, carrying clickchapterid or not, and a title on its last cell or not
ChapterRows ==
    {[row |-> FALSE, click |-> FALSE, clickchapterid |-> None, title |-> None],
     [row |-> TRUE, click |-> FALSE, clickchapterid |-> None, title |-> None]}
    \cup {[row |-> TRUE, click |-> TRUE, clickchapterid |-> c, title |-> None] :
            c \in {None, Some("1"), Some("2")}}
    \cup {[row |-> TRUE, click |-> TRUE, clickchapterid |-> c, title |-> Some(t)] :
            c \in {Some("1"), Some("2")}, t \in ChapterTitles}

DetailPages ==
    [title : {None, Some("T")},
     author : {None, Some("A")},
     novelintro : BOOLEAN,
     tags : {<<>>, <<"tag1", "tag2">>},
     img : ImgNodes,
     chapter : ChapterRows]

NoDetailPage ==
    [title |-> None, author |-> None, novelintro |-> FALSE, tags |-> <<>>,
     img |-> [node |-> FALSE, src |-> None],
     chapter |-> [row |-> FALSE, click |-> FALSE, clickchapterid |-> None, title |-> None]]

\* an answer: the fetch raised, the bytes did not parse, or a page
DetailResps ==
    {[status |-> s, page |-> NoDetailPage] : s \in {"fetch_error", "parse_error"}}
        \cup {[status |-> "ok", page |-> p] : p \in DetailPages}

\* the fetch is not issued
Unfetched(page) == [status |-> "unfetched", page |-> page]

-----------------------------------------------------------------------------
(* The result of running a handler *)

\* what a handler leaves behind: the entries it put on the queue it was
\* given, how it ended, its fetches, and its locals cover_url and jj_id
Result(q, out, f, cu, id) ==
    [queue |-> q, outcome |-> out, fetched |-> f, cover_url |-> cu, jj_id |-> id]

Fetch(kind, url) == [kind |-> kind, url |-> url]

-----------------------------------------------------------------------------
(* identify with an id, lines 136-215 *)

\* lines 174: "authorspace" in parsed.netloc
IdentifyIsAuthorSpace(parsed) == Contains(parsed.netloc, "authorspace")

\* lines 171-180: the cover URL from the src of the cover image ('' when the
\* attribute is missing) and the id
IdentifyCoverUrl(custom_cover, id) ==
    IF custom_cover # <<>>
    THEN LET parsed == urlparse(custom_cover)
         IN  IF IdentifyIsAuthorSpace(parsed)
             THEN parsed.scheme \o <<":", "//">> \o parsed.netloc \o StripSuffix(parsed.path)
             ELSE custom_cover
    ELSE JINJIANG_BOOKCOVER_URL(id)

\* lines 184-202: the local bPublishDate after the first chapter row was
\* read.  [exc] names the exception raised on the way ("" for none) and
\* [bound] tells whether bPublishDate was assigned
FirstChapterDate(chapter) ==
    LET raised(e) == [exc |-> e, bound |-> FALSE, value |-> NoTime]
        unbound == [exc |-> "", bound |-> FALSE, value |-> NoTime]
    IN  IF ~chapter.row THEN raised("IndexError")
        ELSE IF ~chapter.click THEN raised("IndexError")
        ELSE IF chapter.clickchapterid = Some("1")
        THEN IF chapter.title = None THEN raised("TypeError")
             ELSE LET match == SearchPublishTime(chapter.title[1])
                  IN  IF match # None
                      THEN LET d == strptime_datetime(match[1])
                           IN  IF d = None THEN raised("ValueError")
                               ELSE [exc |-> "", bound |-> TRUE, value |-> d[1]]
                      ELSE unbound
        ELSE unbound

DetailMetadataTitleAsId(id, page, cover, pubdate) ==
    [title |-> page.title, authors |-> <<page.author>>,
     identifiers |-> [jinjiang |-> page.title[1]],
     comments |-> "novelintro", publisher |-> "jjwxc", language |-> "zh_CN",
     tags |-> page.tags, url |-> JINJIANG_BOOK_URL(id), cover |-> cover,
     pubdate |-> Some(pubdate), search_result_index |-> None]

\* lines 204-212: the record of a detail page.  "novelintro" stands for the
\* serialized synopsis node and "jjwxc" for the publisher name of line 207
DetailMetadata(id, page, cover, pubdate) ==
    [title |-> page.title, authors |-> <<page.author>>,
     identifiers |-> [jinjiang |-> id],
     comments |-> "novelintro", publisher |-> "jjwxc", language |-> "zh_CN",
     tags |-> page.tags, url |-> JINJIANG_BOOK_URL(id), cover |-> cover,
     pubdate |-> Some(pubdate), search_result_index |-> None]

\* lines 137-215
IdentifyById(id, resp) ==
    LET f == <<Fetch("detail", JINJIANG_BOOK_URL(id))>>
        page == resp.page
        end(q, out, cu) == Result(q, out, f, cu, Some(id))
    IN  IF resp.status = "fetch_error" THEN end(<<>>, "returned", None)
        ELSE IF resp.status = "parse_error" THEN end(<<>>, "returned", None)
        ELSE IF page.title = None THEN end(<<>>, "IndexError", None)
        ELSE IF page.author = None THEN end(<<>>, "IndexError", None)
        ELSE IF ~page.novelintro THEN end(<<>>, "IndexError", None)
        ELSE IF ~page.img.node THEN end(<<>>, "IndexError", None)
        ELSE
          LET custom_cover == IF page.img.src = None THEN <<>> ELSE page.img.src[1]
              cover == IdentifyCoverUrl(custom_cover, id)
              date == FirstChapterDate(page.chapter)
          IN  IF date.exc # "" THEN end(<<>>, date.exc, Some(cover))
              ELSE IF ~date.bound THEN end(<<>>, "UnboundLocalError", Some(cover))
              ELSE end(<<DetailMetadata(id, page, cover, date.value)>>,
                       "returned", Some(cover))

-----------------------------------------------------------------------------
(* The search page *)

\* href values of a result link
GoodHref(id) == <<"http", ":", "//", "www", ".jjwxc.net", "/", "onebook.php", "?", "novelid=", id>>

Hrefs ==
    { GoodHref("1"), GoodHref("2"),
      \* no novelid digits
      <<"http", ":", "//", "www", ".jjwxc.net", "/", "onebook.php", "?", "novelid=">>,
      \* the detail URL pattern twice
      GoodHref("1") \o <<"&from=">> \o GoodHref("2") }

\* a result card of the primary layout: the link node and its href, the
\* title span, the date text, the author span, the intro block
GoodCard(h) ==
    [link |-> TRUE, href |-> Some(h), span |-> Some("T"),
     font |-> Some(<<Tok("lparen"), DateTok(<<2018, 6, 30, 0, 0, 0>>), Tok("rparen")>>),
     author |-> Some("A"), intro |-> TRUE]

Cards ==
    {GoodCard(h) : h \in Hrefs}
    \cup { [GoodCard(GoodHref("1")) EXCEPT !.link = FALSE, !.href = None],
           [GoodCard(GoodHref("2")) EXCEPT !.href = None],
           [GoodCard(GoodHref("2")) EXCEPT !.href = Some(<<>>)],
           [GoodCard(GoodHref("1")) EXCEPT !.span = None],
           [GoodCard(GoodHref("1")) EXCEPT !.font = None],
           [GoodCard(GoodHref("1")) EXCEPT
               !.font = Some(<<Tok("lparen"), DateTok(<<2018, 6, 31, 0, 0, 0>>), Tok("rparen")>>)],
           [GoodCard(GoodHref("2")) EXCEPT !.author = None],
           [GoodCard(GoodHref("2")) EXCEPT !.intro = FALSE] }

\* a result card of the secondary layout (li.b_algo): its link
BingCards == {[href |-> GoodHref("1")], [href |-> <<"http", ":", "//", "www", "/", "a">>]}

\* text of the result-count banner
Banners ==
    { <<"junk">>,
      <<"found", "0", "articles">>,
      <<"junk", "found", "3", "articles">> }

SearchPages ==
    [banner : {None} \cup {Some(b) : b \in Banners},
     cards : SeqUpTo(Cards, MaxCards),
     b_algo : SeqUpTo(BingCards, MaxBing)]

NoSearchPage == [banner |-> None, cards |-> <<>>, b_algo |-> <<>>]

SearchResps ==
    {[status |-> s, page |-> NoSearchPage] : s \in {"fetch_error", "parse_error"}}
        \cup {[status |-> "ok", page |-> p] : p \in SearchPages}

-----------------------------------------------------------------------------
(* identify without an id, lines 217-316 *)

\* JINJIANG_BOOK_URL_PATTERN.findall(url), line 20 and line 115: the ids
\* captured, leftmost first
PatternFindall(url) ==
    LET hit(i) == /\ i + 5 <= Len(url)
                  /\ url[i] = ".jjwxc.net" /\ url[i + 1] = "/"
                  /\ url[i + 2] = "onebook.php" /\ url[i + 3] = "?"
                  /\ url[i + 4] = "novelid=" /\ url[i + 5] \in DigitTok
        at == {i \in 1..Len(url) : hit(i)}
        RECURSIVE Collect(_)
        Collect(i) == IF i > Len(url) THEN <<>>
                      ELSE (IF i \in at THEN <<url[i + 5]>> ELSE <<>>) \o Collect(i + 1)
    IN  Collect(1)

\* id_from_url, lines 114-118
id_from_url(url) ==
    LET res == PatternFindall(url)
    IN  IF Len(res) = 1 THEN Some(res[1]) ELSE None

\* int(match.group(1)) of re.search(r"found (\d+) articles", text), line 249:
\* None without a match
BannerNumber(text) ==
    LET value == [d \in {"0", "1", "2", "3"} |-> CASE d = "0" -> 0 [] d = "1" -> 1
                                                   [] d = "2" -> 2 [] d = "3" -> 3]
        hit(i) == /\ i + 2 <= Len(text) /\ text[i] = "found"
                  /\ text[i + 1] \in DOMAIN value /\ text[i + 2] = "articles"
    IN  IF \E i \in 1..Len(text) : hit(i)
        THEN LET i == CHOOSE i \in 1..Len(text) : hit(i) /\ \A j \in 1..(i-1) : ~hit(j)
             IN  Some(value[text[i + 1]])
        ELSE None

\* lines 294-303: the record of a result card
CardMetadata(i, book, novel_id, pubdate) ==
    [title |-> book.span, authors |-> <<book.author>>,
     identifiers |-> [jinjiang |-> novel_id],
     comments |-> "intro", publisher |-> "jjwxc", language |-> "zh_CN",
     tags |-> <<>>, url |-> book.href[1], cover |-> JINJIANG_BOOKCOVER_URL(novel_id),
     pubdate |-> Some(pubdate), search_result_index |-> Some(i)]

\* lines 270-310, one turn of the loop on card [book] at index i: [exc] names
\* the exception raised ("" for none) and [put] holds the record put, if any
CardStep(i, book) ==
    LET raised(e) == [exc |-> e, put |-> <<>>]
        skip == [exc |-> "", put |-> <<>>]
    IN  IF ~book.link THEN raised("IndexError")
        ELSE
          LET bURL == IF book.href = None THEN <<>> ELSE book.href[1]
          IN  IF bURL = <<>> THEN raised("TypeError")
              ELSE LET novel_id == id_from_url(bURL)
                   IN  IF novel_id = None THEN skip
                       ELSE IF book.span = None THEN raised("IndexError")
                       ELSE IF book.font = None THEN raised("IndexError")
                       ELSE LET d == strptime_date(StripParens(book.font[1]))
                            IN  IF d = None THEN raised("ValueError")
                                ELSE IF book.author = None THEN raised("IndexError")
                                ELSE IF ~book.intro THEN raised("IndexError")
                                ELSE [exc |-> "",
                                      put |-> <<CardMetadata(i, book, novel_id[1], d[1])>>]

RECURSIVE PrimaryLayout(_, _)
\* lines 263-310: for i, book in enumerate(books), from index i on; the
\* records put and how the loop ended
PrimaryLayout(books, i) ==
    IF i >= Len(books) THEN [queue |-> <<>>, outcome |-> "returned"]
    ELSE LET step == CardStep(i, books[i + 1])
         IN  IF step.exc # "" THEN [queue |-> <<>>, outcome |-> step.exc]
             ELSE LET rest == PrimaryLayout(books, i + 1)
                  IN  [queue |-> step.put \o rest.queue, outcome |-> rest.outcome]

SecondaryLayoutEmitting(books) ==
    LET RECURSIVE Each(_)
        Each(i) ==
            IF i >= Len(books) THEN <<>>
            ELSE (IF id_from_url(books[i + 1].href) = None THEN <<>>
                  ELSE <<CardMetadata(i, GoodCard(books[i + 1].href),
                                      id_from_url(books[i + 1].href)[1], NoTime)>>)
                 \o Each(i + 1)
    IN  [queue |-> Each(0), outcome |-> "returned"]

\* lines 255-260: the cards of the secondary layout are counted and logged
SecondaryLayout(books) == [queue |-> <<>>, outcome |-> "returned"]

\* lines 220-316
IdentifyBySearch(title, resp) ==
    LET normalized_title == IF title = None THEN <<>> ELSE title[1]
        f == <<Fetch("search", JINJIANG_SEARCH_URL(quote(normalized_title)))>>
        page == resp.page
        end(q, out) == Result(q, out, f, None, None)
    IN  IF resp.status = "fetch_error" THEN end(<<>>, "returned")
        ELSE IF resp.status = "parse_error" THEN end(<<>>, "returned")
        ELSE IF page.banner = None THEN end(<<>>, "IndexError")
        ELSE LET number == BannerNumber(page.banner[1])
             IN  IF number = None THEN end(<<>>, "returned")
                 ELSE LET r == IF number[1] = 0 THEN SecondaryLayout(page.b_algo)
                                                ELSE PrimaryLayout(page.cards, 0)
                      IN  end(r.queue, r.outcome)

\* identify, lines 125-316: an id that is not falsy selects the detail page
Identify(id, title, dresp, sresp) ==
    IF id # None /\ id[1] # ""
    THEN IdentifyById(id[1], dresp)
    ELSE [IdentifyBySearch(title, sresp) EXCEPT !.jj_id = id]

-----------------------------------------------------------------------------
(* download_cover, lines 318-425 *)

\* answers to the fetch of an image: the fetch raised (a timeout, say), it
\* read no bytes, or it read the image
CoverResps == {"error", "empty", "bytes"}

\* lines 337-358, after the nested identify ended with [nested]
ResolveFromResults(nested, abort) ==
    LET end(out, jj) == [outcome |-> out, jj_id |-> jj, rq |-> nested.queue,
                         fetched |-> nested.fetched]
    IN  IF nested.outcome # "returned" THEN end(nested.outcome, None)
        ELSE IF abort THEN end("returned", None)
        ELSE IF Len(nested.queue) = 0 THEN end("returned", None)
        ELSE end("resolved", Some(SortResults(nested.queue)[1].identifiers.jinjiang))

\* lines 330-362: the id from the identifiers or, without one, from a nested
\* identify.  [outcome] is "resolved" when the handler goes on to line 364
ResolveId(id, title, abort, sresp) ==
    IF id # None
    THEN [outcome |-> "resolved", jj_id |-> id, rq |-> <<>>, fetched |-> <<>>]
    ELSE ResolveFromResults(Identify(id, title, Unfetched(NoDetailPage), sresp), abort)

\* lines 318-366: the local cover_url when line 367 reads it.  cover_url is
\* assigned at line 400 only, so it is a local of download_cover without a
\* value here: None
CoverUrlAtDefaultFetch(jj) == None

\* one image fetch inside try/except, lines 368-374 and its likes: the
\* entries put and the fetch issued
FetchImage(url, resp) ==
    [queue |-> IF resp = "bytes" THEN <<[source |-> "self", cdata |-> "bytes"]>> ELSE <<>>,
     fetched |-> <<Fetch("cover", url)>>,
     failed |-> resp = "error"]

\* line 396: "authorspace" in parsed.path
DownloadIsAuthorSpace(parsed) == Contains(parsed.path, "authorspace")

\* lines 395-400: the URL of the 'original' custom cover, None when the
\* source is not taken for an author-space one
DownloadOriginalCoverUrl(custom_cover_src) ==
    LET parsed == urlparse(custom_cover_src)
    IN  IF DownloadIsAuthorSpace(parsed)
        THEN Some(parsed.scheme \o <<":", "//">> \o parsed.netloc \o StripSuffix(parsed.path))
        ELSE None

\* lines 393-425: the first custom cover URL the handler fetches
DownloadFirstCustomUrl(custom_cover_src) ==
    LET original == DownloadOriginalCoverUrl(custom_cover_src)
    IN  IF original # None THEN original[1] ELSE custom_cover_src

\* lines 393-425, after the detail page was parsed
CustomCover(img, oresp, lresp) ==
    IF ~img.node THEN [queue |-> <<>>, fetched |-> <<>>, outcome |-> "IndexError",
                       cover_url |-> None]
    ELSE
      LET custom_cover_src == IF img.src = None THEN <<>> ELSE img.src[1]
          original == DownloadOriginalCoverUrl(custom_cover_src)
      IN  IF original # None
          THEN LET first == FetchImage(original[1], oresp)
                   second == FetchImage(custom_cover_src, lresp)
               IN  IF first.failed
                   THEN [queue |-> second.queue, fetched |-> first.fetched \o second.fetched,
                         outcome |-> "returned", cover_url |-> original]
                   ELSE [queue |-> first.queue, fetched |-> first.fetched,
                         outcome |-> "returned", cover_url |-> original]
          ELSE LET only == FetchImage(custom_cover_src, lresp)
               IN  [queue |-> only.queue, fetched |-> only.fetched,
                    outcome |-> "returned", cover_url |-> None]

\* the custom cover part [c] after the default cover part [default]
JoinCovers(f0, jj, cu, default, c) ==
    Result(default.queue \o c.queue, c.outcome,
           f0 \o default.fetched \o <<Fetch("detail", JINJIANG_BOOK_URL(jj))>> \o c.fetched,
           IF c.cover_url = None THEN Some(cu) ELSE c.cover_url, Some(jj))

\* lines 367-425 with cover_url bound to [cu] at line 367, after the fetches f0
DownloadFrom(f0, jj, cu, cresp, dresp, oresp, lresp) ==
    IF dresp.status \in {"fetch_error", "parse_error"}
    THEN JoinCovers(f0, jj, cu, FetchImage(cu, cresp),
                    [queue |-> <<>>, fetched |-> <<>>, outcome |-> "returned",
                     cover_url |-> None])
    ELSE JoinCovers(f0, jj, cu, FetchImage(cu, cresp),
                    CustomCover(dresp.page.img, oresp, lresp))

\* the answers of the site to the detail page fetch of download_cover, which
\* reads the cover image node only
CoverDetailResps ==
    {[status |-> s, page |-> NoDetailPage] : s \in {"fetch_error", "parse_error"}}
        \cup {[status |-> "ok", page |-> [NoDetailPage EXCEPT !.img = i]] : i \in ImgNodes}

-----------------------------------------------------------------------------
(* The calls *)

\* The arguments authors, timeout and get_best_cover are left out: identify
\* reads authors into a local it never uses (line 220), the timeout is passed
\* on to the fetches, and get_best_cover is not read.

\* identifiers.get(PROVIDER_ID, None): no entry, an empty id, an id
IdArgs == {None, Some(""), Some("1"), Some("2")}

TitleArgs == {None, Some(<<"tg", " ", "cf">>)}

Init ==
    /\ op = "idle"
    /\ args = [id |-> None, title |-> None, abort |-> FALSE]
    /\ detail_resp = Unfetched(NoDetailPage)
    /\ search_resp = Unfetched(NoSearchPage)
    /\ cover_resp = "unfetched"
    /\ result_queue = <<>>
    /\ fetched = <<>>
    /\ cover_url = None
    /\ jj_id = None
    /\ rq = <<>>
    /\ outcome = "none"

\* the handler [name] ended with result r
Finish(name, a, dresp, sresp, cresp, r, nestedq) ==
    /\ op' = name
    /\ args' = a
    /\ detail_resp' = dresp
    /\ search_resp' = sresp
    /\ cover_resp' = cresp
    /\ result_queue' = r.queue
    /\ fetched' = r.fetched
    /\ cover_url' = r.cover_url
    /\ jj_id' = r.jj_id
    /\ rq' = nestedq
    /\ outcome' = r.outcome

\* a call of Jinjiang.identify on a fresh queue.  The answer to a fetch the
\* call does not issue is left out
identify ==
    /\ op = "idle"
    /\ \E id \in IdArgs, title \in TitleArgs :
         LET byId == id # None /\ id[1] # "" IN
         \E dresp \in (IF byId THEN DetailResps ELSE {Unfetched(NoDetailPage)}),
            sresp \in (IF byId THEN {Unfetched(NoSearchPage)} ELSE SearchResps) :
              Finish("identify", [id |-> id, title |-> title, abort |-> FALSE],
                     dresp, sresp, "unfetched",
                     Identify(id, title, dresp, sresp), <<>>)

\* lines 364-425, after lines 330-362 ended with [pre]
DownloadCoverFrom(a, sresp, pre) ==
    IF pre.outcome # "resolved"
    THEN Finish("download_cover", a, Unfetched(NoDetailPage), sresp, "unfetched",
                Result(<<>>, pre.outcome, pre.fetched, None, pre.jj_id), pre.rq)
    ELSE
      \E cresp \in CoverResps :
        IF CoverUrlAtDefaultFetch(pre.jj_id[1]) = None
        THEN Finish("download_cover", a, Unfetched(NoDetailPage), sresp, cresp,
                    Result(<<>>, "UnboundLocalError", pre.fetched, None, pre.jj_id),
                    pre.rq)
        ELSE
          \E dresp \in CoverDetailResps, oresp \in CoverResps, lresp \in CoverResps :
            Finish("download_cover", a, dresp, sresp, cresp,
                   DownloadFrom(pre.fetched, pre.jj_id[1],
                                CoverUrlAtDefaultFetch(pre.jj_id[1])[1],
                                cresp, dresp, oresp, lresp),
                   pre.rq)

\* a call of Jinjiang.download_cover on a fresh queue
download_cover ==
    /\ op = "idle"
    /\ \E id \in IdArgs, title \in TitleArgs, abort \in BOOLEAN :
         \E sresp \in (IF id = None THEN SearchResps ELSE {Unfetched(NoSearchPage)}) :
           DownloadCoverFrom([id |-> id, title |-> title, abort |-> abort], sresp,
                             ResolveId(id, title, abort, sresp))

Next == identify \/ download_cover

Spec == Init /\ [][Next]_vars

-----------------------------------------------------------------------------
(* Vocabulary of the properties *)

\* identify ran with an id that selects the detail page
IdMode == op = "identify" /\ args.id # None /\ args.id[1] # ""

\* identify ran without such an id
SearchMode == op = "identify" /\ ~(args.id # None /\ args.id[1] # "")

\* search_result_index of a record, 0 for a record without the attribute
IndexOf(mi) == IF mi.search_result_index = None THEN 0 ELSE mi.search_result_index[1]

\* the count the banner of the fetched search page reports, -1 without one
ReportedCount ==
    IF search_resp.status = "ok" /\ search_resp.page.banner # None
       /\ BannerNumber(search_resp.page.banner[1]) # None
    THEN BannerNumber(search_resp.page.banner[1])[1]
    ELSE -1

\* the link of a result card yields an id
YieldsId(href) == href # None /\ href[1] # <<>> /\ id_from_url(href[1]) # None

-----------------------------------------------------------------------------
(* C1 *)

\* C1: a call of identify or of download_cover never ends with an
\* exception, whatever the fetches answer and whichever nodes the fetched
\* page lacks
C1_NeverRaises == outcome \in {"none", "returned"}

-----------------------------------------------------------------------------
(* C2 *)

\* C2: identify with an id puts at most one record on the queue, fetches no
\* search page, and every record it puts carries exactly the input id under
\* the provider key
C2_IdModeSingleRecord ==
    IdMode =>
        /\ Len(result_queue) <= 1
        /\ \A i \in 1..Len(fetched) : fetched[i].kind # "search"
        /\ \A i \in 1..Len(result_queue) :
               result_queue[i].identifiers.jinjiang = args.id[1]

\* identify with an id has put its record
C2_Witness ==
    /\ IdMode
    /\ outcome = "returned"
    /\ Len(result_queue) = 1
    /\ Len(fetched) = 1

-----------------------------------------------------------------------------
(* C3 *)

\* every node of a primary-layout card other than the href of its link is there
C3_CompleteCard(c) ==
    /\ c.link
    /\ c.span # None
    /\ c.font # None
    /\ strptime_date(StripParens(c.font[1])) # None
    /\ c.author # None
    /\ c.intro

\* C3: over a primary-layout page, the records are put in page order with
\* strictly increasing search_result_index, the index of a record is the
\* 0-based position of its card, and a card whose link yields no id is
\* skipped and still takes its index: the records are exactly the cards
\* whose link yields an id (stated for pages whose cards lack no other node)
C3_PrimaryLayoutOrder ==
    LET cards == search_resp.page.cards
        yielding == {i \in 0..(Len(cards) - 1) : YieldsId(cards[i + 1].href)}
    IN  (SearchMode /\ ReportedCount > 0
         /\ \A i \in 1..Len(cards) : C3_CompleteCard(cards[i]))
        =>
        /\ \A k \in 1..(Len(result_queue) - 1) :
               IndexOf(result_queue[k]) < IndexOf(result_queue[k + 1])
        /\ {IndexOf(result_queue[k]) : k \in 1..Len(result_queue)} = yielding
        /\ \A k \in 1..Len(result_queue) :
               Some(result_queue[k].identifiers.jinjiang)
                   = id_from_url(cards[IndexOf(result_queue[k]) + 1].href[1])

-----------------------------------------------------------------------------
(* C4 *)

\* C4: download_cover with a resolved id whose default cover fetch fails
\* still fetches the detail page of that id
C4_CustomAfterDefaultFailure ==
    (op = "download_cover" /\ jj_id \in {Some(i) : i \in DigitTok} /\ cover_resp = "error")
        => \E i \in 1..Len(fetched) :
               fetched[i] = Fetch("detail", JINJIANG_BOOK_URL(jj_id[1]))

-----------------------------------------------------------------------------
(* C5 *)

\* C5: download_cover without an id whose nested identify put no record
\* puts no image, fetches no cover and no detail page, and returns
C5_NoIdNoResults ==
    (op = "download_cover" /\ args.id = None /\ rq = <<>>)
        => /\ result_queue = <<>>
           /\ \A i \in 1..Len(fetched) : fetched[i].kind = "search"
           /\ outcome = "returned"

-----------------------------------------------------------------------------
(* C6 *)

\* C6: on a detail page with the title, author, synopsis, cover image and
\* first chapter nodes: chapter id "1" and the marker followed by a
\* timestamp give a record whose pubdate is that timestamp; another chapter
\* id, or no marker followed by a timestamp, gives a record without pubdate
C6_Pubdate ==
    LET p == detail_resp.page
        ch == p.chapter
        found == IF ch.title = None THEN None ELSE SearchPublishTime(ch.title[1])
    IN  (IdMode /\ detail_resp.status = "ok" /\ p.title # None /\ p.author # None
         /\ p.novelintro /\ p.img.node /\ ch.row /\ ch.click)
        =>
        /\ (ch.clickchapterid = Some("1") /\ found # None /\ strptime_datetime(found[1]) # None)
              => (Len(result_queue) = 1 /\ result_queue[1].pubdate = Some(found[1]))
        /\ (ch.clickchapterid # Some("1") \/ found = None)
              => (Len(result_queue) = 1 /\ result_queue[1].pubdate = None)

-----------------------------------------------------------------------------
(* C7 *)

\* the URL ends in _300_420 and an extension
C7_EndsInSuffix(u) == Len(u) >= 2 /\ u[Len(u) - 1] = "_300_420" /\ u[Len(u)] \in ExtTok

\* the URL without its last but one token
C7_WithoutSuffix(u) == SubSeq(u, 1, Len(u) - 2) \o <<u[Len(u)]>>

\* C7: the cover URL of the record identify puts, from the src of the cover
\* image: an author-space src ending in _300_420.ext loses _300_420 and
\* nothing else; another src that is not empty is kept as it is; no src or
\* an empty one gives the default cover URL of the id
C7_CoverRule ==
    LET src == IF detail_resp.page.img.src = None THEN <<>>
               ELSE detail_resp.page.img.src[1]
        authorSpace == Contains(urlparse(src).netloc, "authorspace")
    IN  (IdMode /\ Len(result_queue) = 1)
        =>
        /\ (src = <<>>) => result_queue[1].cover = JINJIANG_BOOKCOVER_URL(args.id[1])
        /\ (src # <<>> /\ ~authorSpace) => result_queue[1].cover = src
        /\ (authorSpace /\ C7_EndsInSuffix(src))
              => result_queue[1].cover = C7_WithoutSuffix(src)

-----------------------------------------------------------------------------
(* C8 *)

\* the records the ranking key is applied to: those of the queue of identify
\* and those of the nested identify of download_cover
C8_Records ==
    IF op = "identify" THEN {result_queue[i] : i \in 1..Len(result_queue)}
    ELSE {rq[i] : i \in 1..Len(rq)}

\* C8: the key orders records as their search_result_index does (0 without
\* the attribute; equal keys exactly for equal indices; every two keys are
\* comparable), and the id download_cover resolves from a nested identify
\* is the id of a record with the least search_result_index
C8_RankKey ==
    /\ \A a \in C8_Records :
         \A b \in C8_Records \cup {[a EXCEPT !.search_result_index = Some(n)] : n \in 0..MaxCards} :
            LET ka == identify_results_keygen(a)
                kb == identify_results_keygen(b)
            IN  /\ key_lt(ka, kb) <=> IndexOf(a) < IndexOf(b)
                /\ key_eq(ka, kb) <=> IndexOf(a) = IndexOf(b)
                /\ key_gt(ka, kb) <=> IndexOf(a) > IndexOf(b)
                /\ key_le(ka, kb) <=> ~key_gt(ka, kb)
                /\ key_ge(ka, kb) <=> ~key_lt(ka, kb)
                /\ key_ne(ka, kb) <=> ~key_eq(ka, kb)
    /\ (op = "download_cover" /\ args.id = None /\ rq # <<>> /\ jj_id # None)
         => \E i \in 1..Len(rq) :
               /\ jj_id = Some(rq[i].identifiers.jinjiang)
               /\ \A j \in 1..Len(rq) : IndexOf(rq[i]) <= IndexOf(rq[j])

\* download_cover resolved the id of the first of two records with
\* different ids
C8_Witness ==
    /\ op = "download_cover"
    /\ args.id = None
    /\ Len(rq) >= 2
    /\ rq[1].identifiers.jinjiang # rq[2].identifiers.jinjiang
    /\ IndexOf(rq[1]) < IndexOf(rq[2])
    /\ jj_id = Some(rq[1].identifiers.jinjiang)

-----------------------------------------------------------------------------
(* C9 *)

\* the positions of the secondary-layout cards whose link matches the detail
\* URL pattern
C9_Matching ==
    LET books == search_resp.page.b_algo
    IN  {i \in 0..(Len(books) - 1) : id_from_url(books[i + 1].href) # None}

\* C9 as stated: with a reported count of 0, every secondary-layout card
\* whose link matches the detail URL pattern yields a record tagged with the
\* position of the card
C9_SecondaryLayoutRecords ==
    (SearchMode /\ ReportedCount = 0)
        => /\ Len(result_queue) = Cardinality(C9_Matching)
           /\ {IndexOf(result_queue[k]) : k \in 1..Len(result_queue)} = C9_Matching

\* C9 as amended: with a reported count of 0 the secondary-layout cards are
\* counted only; identify puts no record and returns
C9_SecondaryLayoutNoRecords ==
    (SearchMode /\ ReportedCount = 0)
        => /\ result_queue = <<>>
           /\ outcome = "returned"

\* identify ended on a page that reports 0 and holds a secondary-layout card
\* with a matching link
C9_Witness ==
    /\ SearchMode
    /\ ReportedCount = 0
    /\ C9_Matching # {}
    /\ outcome = "returned"

-----------------------------------------------------------------------------
(* C10 *)

\* C10: for a src of the cover image that is not empty, identify and
\* download_cover take the same author-space decision, and the cover URL of
\* the record identify puts is the first custom cover URL download_cover
\* computes from the same src
C10_SameCoverRule ==
    LET src == IF detail_resp.page.img.src = None THEN <<>>
               ELSE detail_resp.page.img.src[1]
    IN  (IdMode /\ Len(result_queue) = 1 /\ src # <<>>)
        =>
        /\ IdentifyIsAuthorSpace(urlparse(src)) <=> DownloadIsAuthorSpace(urlparse(src))
        /\ result_queue[1].cover = DownloadFirstCustomUrl(src)

=============================================================================
